---- MODULE Spec2Model ----
(***************************************************************************)
(* Retrieval-fusion and budgeting pipeline of AzureAISearchDataSource      *)
(* (src/unnamed/part_000): confidence gate, diversity selection, grouping, *)
(* whitespace normalisation, de-duplication, sentence condensing,          *)
(* formatting and budget stitching; and trimToLastN of the message handler *)
(* (src/src/app/app.ts).                                                   *)
(*                                                                         *)
(* A JavaScript string is a sequence of one-character strings.  The value  *)
(* Null stands for both null and undefined.  Scores are integers in        *)
(* thousandths (0.12 is 120); an optional score is <<>> or <<n>>.          *)
(***************************************************************************)
EXTENDS Integers, Sequences, FiniteSets, TLC

\* ------------------------------------------------------------------------
\* Characters
\* ------------------------------------------------------------------------

\* null / undefined
Null == <<"null">>

\* U+200B ZERO WIDTH SPACE and U+2026 HORIZONTAL ELLIPSIS
ZWSP == "ZWSP"
ELLIPSIS == "ELLIPSIS"

\* the class [U+200B-U+200D, U+FEFF, U+2028, U+2029] restricted to the model
ZeroWidth == {ZWSP}

\* ECMAScript WhiteSpace + LineTerminator (what String.prototype.trim and
\* the regex class \s match) restricted to the characters of the model
IsWs(c) == c \in {" ", "\t", "\n", "\r", "\f"}

\* UTF-16 code unit of a character (String.prototype.charCodeAt)
charCodeAt(c) ==
  CASE c = "\t" -> 9
    [] c = "\n" -> 10
    [] c = "\f" -> 12
    [] c = "\r" -> 13
    [] c = " " -> 32
    [] c = "!" -> 33
    [] c = "\"" -> 34
    [] c = "&" -> 38
    [] c = "(" -> 40
    [] c = ")" -> 41
    [] c = "." -> 46
    [] c = "/" -> 47
    [] c = ";" -> 59
    [] c = "<" -> 60
    [] c = "=" -> 61
    [] c = ">" -> 62
    [] c = "?" -> 63
    [] c = "A" -> 65
    [] c = "B" -> 66
    [] c = "E" -> 69
    [] c = "T" -> 84
    [] c = "a" -> 97
    [] c = "b" -> 98
    [] c = "c" -> 99
    [] c = "d" -> 100
    [] c = "e" -> 101
    [] c = "i" -> 105
    [] c = "l" -> 108
    [] c = "n" -> 110
    [] c = "o" -> 111
    [] c = "q" -> 113
    [] c = "r" -> 114
    [] c = "s" -> 115
    [] c = "t" -> 116
    [] c = "u" -> 117
    [] c = "x" -> 120
    [] c = ZWSP -> 8203
    [] c = ELLIPSIS -> 8230

\* ------------------------------------------------------------------------
\* String primitives of the JavaScript runtime
\* ------------------------------------------------------------------------

\* s.slice(a, b) for 0 <= a, 0 <= b (0-based, end exclusive)
Slice(s, a, b) ==
  LET e == IF b > Len(s) THEN Len(s) ELSE b
  IN IF a >= e THEN <<>> ELSE SubSeq(s, a + 1, e)

\* s.slice(a)
SliceFrom(s, a) == Slice(s, a, Len(s))

RECURSIVE TrimStart(_)
TrimStart(s) ==
  IF s = <<>> THEN <<>>
  ELSE IF IsWs(Head(s)) THEN TrimStart(Tail(s)) ELSE s

RECURSIVE TrimEnd(_)
TrimEnd(s) ==
  IF s = <<>> THEN <<>>
  ELSE IF IsWs(s[Len(s)]) THEN TrimEnd(SubSeq(s, 1, Len(s) - 1)) ELSE s

\* String.prototype.trim
Trim(s) == TrimEnd(TrimStart(s))

\* s.replace(/[set]/g, "")
RemoveAll(s, set) == SelectSeq(s, LAMBDA c : c \notin set)

\* s.split(sep) for a one-character separator: Len(result) >= 1
RECURSIVE SplitOn(_, _)
SplitOn(s, sep) ==
  IF \A i \in 1..Len(s) : s[i] # sep THEN <<s>>
  ELSE LET i == CHOOSE k \in 1..Len(s) :
                  s[k] = sep /\ \A j \in 1..(k - 1) : s[j] # sep
       IN <<SubSeq(s, 1, i - 1)>> \o SplitOn(SubSeq(s, i + 1, Len(s)), sep)

\* parts.join(sep)
RECURSIVE Join(_, _)
Join(parts, sep) ==
  IF parts = <<>> THEN <<>>
  ELSE IF Len(parts) = 1 THEN parts[1]
  ELSE parts[1] \o sep \o Join(Tail(parts), sep)

\* s.startsWith(pat, at) with a 0-based position
StartsWithAt(s, pat, at) ==
  /\ at + Len(pat) <= Len(s)
  /\ \A k \in 1..Len(pat) : s[at + k] = pat[k]

\* s.indexOf(pat): 0-based, -1 when absent
IndexOf(s, pat) ==
  LET hits == {i \in 0..Len(s) : StartsWithAt(s, pat, i)}
  IN IF hits = {} THEN -1 ELSE CHOOSE i \in hits : \A j \in hits : i <= j

\* s.lastIndexOf(pat): 0-based, -1 when absent
LastIndexOf(s, pat) ==
  LET hits == {i \in 0..Len(s) : StartsWithAt(s, pat, i)}
  IN IF hits = {} THEN -1 ELSE CHOOSE i \in hits : \A j \in hits : i >= j

\* ------------------------------------------------------------------------
\* compactWhitespace (the Normalizer)
\* ------------------------------------------------------------------------

\* out.replace(/\r\n?/g, "\n")
RECURSIVE NormalizeLineEndings(_)
NormalizeLineEndings(s) ==
  IF s = <<>> THEN <<>>
  ELSE IF Head(s) = "\r"
       THEN IF Len(s) >= 2 /\ s[2] = "\n"
            THEN <<"\n">> \o NormalizeLineEndings(SubSeq(s, 3, Len(s)))
            ELSE <<"\n">> \o NormalizeLineEndings(Tail(s))
       ELSE <<Head(s)>> \o NormalizeLineEndings(Tail(s))

\* line.replace(/[ \t]+/g, " ")
RECURSIVE CollapseBlanks(_)
CollapseBlanks(s) ==
  IF s = <<>> THEN <<>>
  ELSE IF Head(s) \in {" ", "\t"}
       THEN LET rest == CollapseBlanks(Tail(s))
            IN IF Len(s) >= 2 /\ s[2] \in {" ", "\t"} THEN rest
               ELSE <<" ">> \o rest
       ELSE <<Head(s)>> \o CollapseBlanks(Tail(s))

\* (line) => line.replace(/[ \t]+/g, " ").trim()
CleanLine(line) == Trim(CollapseBlanks(line))

\* out.split("\n").map(CleanLine).join("\n")
TrimLines(s) ==
  LET lines == SplitOn(s, "\n")
  IN Join([i \in 1..Len(lines) |-> CleanLine(lines[i])], <<"\n">>)

\* out.replace(/\n{3,}/g, "\n\n")
RECURSIVE CollapseBlankLines(_)
CollapseBlankLines(s) ==
  IF s = <<>> THEN <<>>
  ELSE IF Head(s) = "\n"
       THEN LET run == CHOOSE n \in 1..Len(s) :
                         /\ \A k \in 1..n : s[k] = "\n"
                         /\ (n = Len(s) \/ s[n + 1] # "\n")
                rest == CollapseBlankLines(SubSeq(s, run + 1, Len(s)))
            IN IF run >= 3 THEN <<"\n", "\n">> \o rest
               ELSE SubSeq(s, 1, run) \o rest
       ELSE <<Head(s)>> \o CollapseBlankLines(Tail(s))

\* Mutation: the zero-width characters are removed last
compactWhitespaceZeroWidthLast(s) ==
  IF s = Null \/ s = <<>> THEN <<>>
  ELSE RemoveAll(Trim(CollapseBlankLines(TrimLines(NormalizeLineEndings(s)))),
                 ZeroWidth)

compactWhitespace(s) ==
  IF s = Null \/ s = <<>> THEN <<>>
  ELSE Trim(CollapseBlankLines(TrimLines(
         NormalizeLineEndings(RemoveAll(s, ZeroWidth)))))

\* ------------------------------------------------------------------------
\* Size helpers and the BudgetStitcher
\* ------------------------------------------------------------------------

\* Math.ceil((text?.length ?? 0) / 4)
estimateTokens(text) == IF text = Null THEN 0 ELSE (Len(text) + 3) \div 4

Max2(a, b) == IF a >= b THEN a ELSE b

\* cut.replace(/[ \t\r\n]*$/g, "")
RECURSIVE StripTrailingBlanks(_)
StripTrailingBlanks(s) ==
  IF s = <<>> THEN <<>>
  ELSE IF s[Len(s)] \in {" ", "\t", "\r", "\n"}
       THEN StripTrailingBlanks(SubSeq(s, 1, Len(s) - 1))
       ELSE s

\* lastBreak > maxChars * 0.6 is compared in tenths
safeTrimToChars(s, maxChars) ==
  IF Len(s) <= maxChars THEN s
  ELSE LET slice == Slice(s, 0, Max2(0, maxChars - 1))
           lastBreak == Max2(LastIndexOf(slice, <<"\n">>),
                             Max2(LastIndexOf(slice, <<" ">>),
                                  LastIndexOf(slice, <<"\t">>)))
           cut == IF 10 * lastBreak > 6 * maxChars
                  THEN Slice(slice, 0, lastBreak) ELSE slice
       IN StripTrailingBlanks(cut) \o <<ELLIPSIS>>

\* "</context>"
CloseTag == <<"<", "/", "c", "o", "n", "t", "e", "x", "t", ">">>

\* '<context source="'
OpenTagStart == <<"<", "c", "o", "n", "t", "e", "x", "t", " ",
                  "s", "o", "u", "r", "c", "e", "=", "\"">>

\* the else branch of the loop body: the piece that does not fit, trimmed
\* to remaining * 4 characters inside its wrapper
TrimPiece(p, remaining) ==
  LET approxChars == remaining * 4
      openIdx == IndexOf(p, <<">">>)
      closeIdx == LastIndexOf(p, CloseTag)
  IN IF openIdx # -1 /\ closeIdx # -1
     THEN LET head == Slice(p, 0, openIdx + 1)
              body == Slice(p, openIdx + 1, closeIdx)
              tail == SliceFrom(p, closeIdx)
          IN head \o safeTrimToChars(body, approxChars) \o tail
     ELSE safeTrimToChars(p, approxChars)

\* Mutation: a piece that does not fit is skipped and the walk goes on
RECURSIVE StitchLoopSkip(_, _, _, _)
StitchLoopSkip(pieces, maxTokens, used, out) ==
  IF pieces = <<>> THEN out
  ELSE LET p == Head(pieces)
           t == estimateTokens(p)
       IN IF used + t <= maxTokens
          THEN StitchLoopSkip(Tail(pieces), maxTokens, used + t, Append(out, p))
          ELSE StitchLoopSkip(Tail(pieces), maxTokens, used, out)

\* the for loop of stitchWithTokenBudget: the array out when the loop ends
RECURSIVE StitchLoop(_, _, _, _)
StitchLoop(pieces, maxTokens, used, out) ==
  IF pieces = <<>> THEN out
  ELSE LET p == Head(pieces)
           t == estimateTokens(p)
       IN IF used + t <= maxTokens
          THEN StitchLoop(Tail(pieces), maxTokens, used + t, Append(out, p))
          ELSE LET remaining == Max2(0, maxTokens - used)
               IN IF remaining <= 0 THEN out
                  ELSE Append(out, TrimPiece(p, remaining))

\* the array out of stitchWithTokenBudget
StitchOut(pieces, maxTokens) == StitchLoop(pieces, maxTokens, 0, <<>>)

\* { stitched: out.join("\n") }.stitched
stitchWithTokenBudget(pieces, maxTokens) ==
  Join(StitchOut(pieces, maxTokens), <<"\n">>)

\* ------------------------------------------------------------------------
\* Formatter and Condenser
\* ------------------------------------------------------------------------

\* String(v).replace(/"/g, "&quot;")
RECURSIVE escapeAttr(_)
escapeAttr(v) ==
  IF v = <<>> THEN <<>>
  ELSE IF Head(v) = "\""
       THEN <<"&", "q", "u", "o", "t", ";">> \o escapeAttr(Tail(v))
       ELSE <<Head(v)>> \o escapeAttr(Tail(v))

\* Mutation: the wrapper is emitted even when the cleaned content is empty
formatDocumentAlways(content, citation) ==
  LET clean == compactWhitespace(content)
  IN OpenTagStart \o escapeAttr(citation) \o <<"\"", ">">> \o <<"\n">>
     \o clean \o <<"\n">> \o CloseTag

formatDocument(content, citation) ==
  LET clean == compactWhitespace(content)
  IN IF clean = <<>> THEN <<>>
     ELSE OpenTagStart \o escapeAttr(citation) \o <<"\"", ">">> \o <<"\n">>
          \o clean \o <<"\n">> \o CloseTag

\* text.split(/(?<=[.!?])\s+/)
RECURSIVE SplitSentences(_)
SplitSentences(s) ==
  LET seps == {i \in 2..Len(s) : IsWs(s[i]) /\ s[i - 1] \in {".", "!", "?"}}
  IN IF seps = {} THEN <<s>>
     ELSE LET i == CHOOSE k \in seps : \A j \in seps : k <= j
              e == CHOOSE k \in i..Len(s) :
                     /\ \A j \in i..k : IsWs(s[j])
                     /\ (k = Len(s) \/ ~IsWs(s[k + 1]))
          IN <<SubSeq(s, 1, i - 1)>> \o SplitSentences(SubSeq(s, e + 1, Len(s)))

\* (text || "").split(...).filter(Boolean).slice(0, n).join(" ")
firstNSentences(text, n) ==
  LET parts == SelectSeq(SplitSentences(IF text = Null THEN <<>> ELSE text),
                         LAMBDA q : q # <<>>)
  IN Join(Slice(parts, 0, n), <<" ">>)

\* ------------------------------------------------------------------------
\* Deduper
\* ------------------------------------------------------------------------

\* (h * 31 + code) | 0 on a 32-bit value held as <<high half, low half>>
HashStep(h, code) ==
  LET t == h[2] * 31 + code
  IN <<(h[1] * 31 + (t \div 65536)) % 65536, t % 65536>>

RECURSIVE HashLoop(_, _)
HashLoop(s, h) ==
  IF s = <<>> THEN h ELSE HashLoop(Tail(s), HashStep(h, charCodeAt(Head(s))))

HexDigit(d) ==
  <<"0", "1", "2", "3", "4", "5", "6", "7",
    "8", "9", "a", "b", "c", "d", "e", "f">>[d + 1]

\* the four hex digits of a 16-bit half
Hex4(n) ==
  <<HexDigit(n \div 4096), HexDigit((n \div 256) % 16),
    HexDigit((n \div 16) % 16), HexDigit(n % 16)>>

RECURSIVE StripLeadingZeros(_)
StripLeadingZeros(d) ==
  IF Len(d) > 1 /\ Head(d) = "0" THEN StripLeadingZeros(Tail(d)) ELSE d

\* h.toString(16) of the signed 32-bit value h
ToString16(h) ==
  IF h[1] >= 32768
  THEN LET lo == (65536 - h[2]) % 65536
           hi == (65535 - h[1] + (IF h[2] = 0 THEN 1 ELSE 0)) % 65536
       IN <<"-">> \o StripLeadingZeros(Hex4(hi) \o Hex4(lo))
  ELSE StripLeadingZeros(Hex4(h[1]) \o Hex4(h[2]))

hashString(s) == ToString16(HashLoop(s, <<0, 0>>))

\* the for loop of dedupeByHash
RECURSIVE DedupeLoop(_, _, _)
DedupeLoop(chunks, seen, out) ==
  IF chunks = <<>> THEN out
  ELSE LET c == Head(chunks)
           key == hashString(c)
       IN IF key \notin seen
          THEN DedupeLoop(Tail(chunks), seen \cup {key}, Append(out, c))
          ELSE DedupeLoop(Tail(chunks), seen, out)

dedupeByHash(chunks) == DedupeLoop(chunks, {}, <<>>)

\* ------------------------------------------------------------------------
\* DiversitySelector, ConfidenceGate, Aggregator
\* ------------------------------------------------------------------------

\* it.document.parent_id ?? it.document.chunk_id ?? "_"
ParentKey(it) ==
  IF it.document.parent_id # Null THEN it.document.parent_id
  ELSE IF it.document.chunk_id # Null THEN it.document.chunk_id
  ELSE <<"_">>

\* perParent.get(parent) ?? 0
MapGet(map, key) == IF key \in DOMAIN map THEN map[key] ELSE 0

\* perParent.set(parent, n)
MapSet(map, key, n) ==
  [k \in DOMAIN map \cup {key} |-> IF k = key THEN n ELSE map[k]]

\* Mutation: an admitted candidate is put in front of the earlier ones
RECURSIVE LimitLoopFront(_, _, _, _, _)
LimitLoopFront(items, maxPerParent, maxTotal, perParent, out) ==
  IF items = <<>> THEN out
  ELSE LET it == Head(items)
           parent == ParentKey(it)
           n == MapGet(perParent, parent)
       IN IF n < maxPerParent
          THEN LET out2 == <<it>> \o out
               IN IF Len(out2) >= maxTotal THEN out2
                  ELSE LimitLoopFront(Tail(items), maxPerParent, maxTotal,
                                      MapSet(perParent, parent, n + 1), out2)
          ELSE LimitLoopFront(Tail(items), maxPerParent, maxTotal,
                              perParent, out)

\* Mutation: the per-parent count is tested with <=
RECURSIVE LimitLoopOffByOne(_, _, _, _, _)
LimitLoopOffByOne(items, maxPerParent, maxTotal, perParent, out) ==
  IF items = <<>> THEN out
  ELSE LET it == Head(items)
           parent == ParentKey(it)
           n == MapGet(perParent, parent)
       IN IF n <= maxPerParent
          THEN LET out2 == Append(out, it)
               IN IF Len(out2) >= maxTotal THEN out2
                  ELSE LimitLoopOffByOne(Tail(items), maxPerParent, maxTotal,
                                         MapSet(perParent, parent, n + 1), out2)
          ELSE LimitLoopOffByOne(Tail(items), maxPerParent, maxTotal,
                                 perParent, out)

\* the for loop of limitByParentAndTotal
RECURSIVE LimitLoop(_, _, _, _, _)
LimitLoop(items, maxPerParent, maxTotal, perParent, out) ==
  IF items = <<>> THEN out
  ELSE LET it == Head(items)
           parent == ParentKey(it)
           n == MapGet(perParent, parent)
       IN IF n < maxPerParent
          THEN LET out2 == Append(out, it)
               IN IF Len(out2) >= maxTotal THEN out2
                  ELSE LimitLoop(Tail(items), maxPerParent, maxTotal,
                                 MapSet(perParent, parent, n + 1), out2)
          ELSE LimitLoop(Tail(items), maxPerParent, maxTotal, perParent, out)

limitByParentAndTotal(items, maxPerParent, maxTotal) ==
  LimitLoop(items, maxPerParent, maxTotal, <<>>, <<>>)

\* items[i]?.score ?? 0 (i is 0-based)
ScoreAt(items, i) ==
  IF i + 1 <= Len(items) /\ items[i + 1].score # <<>>
  THEN items[i + 1].score[1] ELSE 0

\* Mutation: one weak signal is enough to decline
shouldClarifyEither(items, minTopScore, minScoreGap) ==
  IF Len(items) = 0 THEN TRUE
  ELSE IF Len(items) >= 3 THEN FALSE
  ELSE LET s1 == ScoreAt(items, 0)
           s2 == ScoreAt(items, 1)
       IN (s1 < minTopScore) \/ ((s1 - s2) < minScoreGap)

\* minTopScore and minScoreGap are this.options.minTopScore ?? 0.12 and
\* this.options.minScoreGap ?? 0.01; items is always an array (searchCollect
\* returns one), so !items is false
shouldClarify(items, minTopScore, minScoreGap) ==
  IF Len(items) = 0 THEN TRUE
  ELSE IF Len(items) >= 3 THEN FALSE
  ELSE LET s1 == ScoreAt(items, 0)
           s2 == ScoreAt(items, 1)
           lowTop == s1 < minTopScore
           smallGap == (s1 - s2) < minScoreGap
       IN lowTop /\ smallGap

\* !v for a nullable string
Falsy(v) == v = Null \/ v = <<>>

\* the Map of groupByParent after the loop, in insertion order, each
\* entry with its key
RECURSIVE GroupLoop(_, _)
GroupLoop(items, map) ==
  IF items = <<>> THEN map
  ELSE LET it == Head(items)
           parent == ParentKey(it)
           at == {i \in 1..Len(map) : map[i].key = parent}
           g0 == IF at = {}
                 THEN [key |-> parent, title |-> it.document.title,
                       chunks |-> <<>>]
                 ELSE map[CHOOSE i \in at : TRUE]
           g1 == IF ~Falsy(it.document.chunk)
                 THEN [g0 EXCEPT !.chunks = Append(@, it.document.chunk)]
                 ELSE g0
           g2 == IF Falsy(g1.title) /\ ~Falsy(it.document.title)
                 THEN [g1 EXCEPT !.title = it.document.title]
                 ELSE g1
       IN GroupLoop(Tail(items),
                    IF at = {} THEN Append(map, g2)
                    ELSE [map EXCEPT ![CHOOSE i \in at : TRUE] = g2])

GroupMap(items) == GroupLoop(items, <<>>)

\* Array.from(map.values()).map((g) => ({ title, chunks }))
groupByParent(items) ==
  LET map == GroupMap(items)
  IN [i \in 1..Len(map) |-> [title |-> map[i].title, chunks |-> map[i].chunks]]

\* ------------------------------------------------------------------------
\* renderContext after the retrieval call has returned
\* ------------------------------------------------------------------------

\* "(untitled)"
Untitled == <<"(", "u", "n", "t", "i", "t", "l", "e", "d", ")">>

\* the number of sentences renderContext keeps per group
SentencesKept == 4

\* group.chunks.map((c) => compactWhitespace(c)).filter((c) => c.length > 0)
NormalizedChunks(chunks) ==
  SelectSeq([i \in 1..Len(chunks) |-> compactWhitespace(chunks[i])],
            LAMBDA c : Len(c) > 0)

\* one iteration of the loop over the groups: the locals of the body
GroupBody(group, deduped) ==
  LET title == IF group.title = Null THEN Untitled ELSE group.title
      cut == firstNSentences(Join(deduped, <<" ">>), SentencesKept)
  IN [title |-> title,
      normalizedChunks |-> NormalizedChunks(group.chunks),
      deduped |-> deduped,
      cut |-> cut,
      piece |-> formatDocument(cut, title)]

\* Mutation: one set of seen fingerprints is shared by all the groups
RECURSIVE SharedSeenLoop(_, _, _)
SharedSeenLoop(groups, acc, seen) ==
  IF groups = <<>> THEN acc
  ELSE LET normalized == NormalizedChunks(Head(groups).chunks)
           deduped == DedupeLoop(normalized, seen, <<>>)
       IN SharedSeenLoop(Tail(groups),
                         Append(acc, GroupBody(Head(groups), deduped)),
                         seen \cup {hashString(deduped[i]) :
                                      i \in 1..Len(deduped)})

ContextLoopSharedSeen(groups, acc) == SharedSeenLoop(groups, acc, {})

\* for (const group of grouped) { ... }: the locals of every iteration
RECURSIVE ContextLoop(_, _)
ContextLoop(groups, acc) ==
  IF groups = <<>> THEN acc
  ELSE ContextLoop(Tail(groups),
         Append(acc, GroupBody(Head(groups),
                  dedupeByHash(NormalizedChunks(Head(groups).chunks)))))

\* if (piece.trim().length > 0) contexts.push(piece)
Contexts(bodies) ==
  LET kept == SelectSeq(bodies, LAMBDA b : Len(Trim(b.piece)) > 0)
  IN [i \in 1..Len(kept) |-> kept[i].piece]

\* this.options.minTopScore ?? 0.12 and this.options.minScoreGap ?? 0.01
OptionOr(opt, default) == IF opt = <<>> THEN default ELSE opt[1]

DefaultMinTopScore == 120
DefaultMinScoreGap == 10

Declines(items, o) ==
  shouldClarify(items, OptionOr(o.minTopScore, DefaultMinTopScore),
                OptionOr(o.minScoreGap, DefaultMinScoreGap))

\* the locals of renderContext from the gate to the return statement; the
\* early return leaves every later local unset
Declined ==
  [picked |-> <<>>, grouped |-> <<>>, perGroup |-> <<>>, contexts |-> <<>>,
   result |-> <<>>]

Proceeds(items, o) ==
  LET pk == limitByParentAndTotal(items, o.maxPerParent, o.maxTotalAfterFusion)
      gr == groupByParent(pk)
      bodies == ContextLoop(gr, <<>>)
      ctx == Contexts(bodies)
  IN [picked |-> pk, grouped |-> gr, perGroup |-> bodies, contexts |-> ctx,
      result |-> stitchWithTokenBudget(ctx, o.maxContextTokens)]

\* Mutation: the gate is evaluated but its verdict is not acted on
AfterSearchNoExit(items, o) == Proceeds(items, o)

AfterSearch(items, o) ==
  IF Declines(items, o) THEN Declined ELSE Proceeds(items, o)

\* ------------------------------------------------------------------------
\* Inputs
\* ------------------------------------------------------------------------

\* the longest candidate list the retrieval provider returns
MaxRanked == 4
\* the longest candidate list, and the largest caps, given to the selector
MaxItems == 4
MaxPerParentCap == 2
MaxTotalCap == 3
\* the longest candidate list given to the gate
MaxGateItems == 3
\* the longest block list, and the largest budget, given to the stitcher
MaxPieces == 3
MaxBudget == 26
\* the longest text given to the Normalizer
MaxTextLen == 5

\* defaults merged in by the constructor
DefaultMaxTotalAfterFusion == 6
DefaultMaxPerParent == 4
DefaultMaxContextTokens == 1200

TextAbCd == <<"a", "b", " ", "c", "d", ".">>
TextAbCdNoisy == <<"a", "b", " ", " ", "c", "d", ".", "\r", "\n">>
TextBlank == <<" ", "\t", "\n", ZWSP>>
\* "cd" and "dE" are 99*31+100 = 100*31+69 = 3169
TextAbDE == <<"a", "b", " ", "d", "E", ".">>
TextFive == <<"x", ".", " ", "a", "!", " ", "b", "?", " ", "c", ".", " ",
              "d", ".">>
TextWords == <<"a", " ", "b", " ", "c", " ", "d", " ", "e", " ",
               "a", " ", "b", " ", "c", " ", "d", " ", "e">>

\* s repeated n times
RECURSIVE Repeat(_, _)
Repeat(s, n) == IF n = 0 THEN <<>> ELSE s \o Repeat(s, n - 1)

\* one sentence of 39 characters
TextLong == Repeat(<<"a", "b", " ">>, 12) \o <<"c", "d", ".">>

Doc(id, parent, title, chunk, score) ==
  [document |-> [chunk_id |-> id, parent_id |-> parent, title |-> title,
                 chunk |-> chunk],
   score |-> score]

\* search results: two parents with two chunks each (one pair of chunks
\* equal after normalisation, one chunk repeated across the parents), one
\* blank chunk, one result without parent whose key is another's parent,
\* one chunk that differs from another of its parent and has its fingerprint
Docs ==
  { Doc(<<"a">>, <<"A">>, <<"T">>, TextAbCd, <<500>>),
    Doc(<<"b">>, <<"A">>, Null, TextAbCdNoisy, <<400>>),
    Doc(<<"c">>, <<"B">>, Null, TextAbCd, <<100>>),
    Doc(<<"d">>, Null, <<>>, TextBlank, <<>>),
    Doc(<<"e">>, <<"B">>, <<"x", ">", "a">>, TextFive, <<80>>),
    Doc(<<"A">>, Null, Null, Null, <<115>>),
    Doc(<<"f">>, <<"B">>, Null, TextAbDE, <<90>>) }

\* the lists of at most n distinct members of pool
DistinctLists(pool, n) ==
  UNION { {f \in [1..k -> pool] : \A i, j \in 1..k : i # j => f[i] # f[j]} :
          k \in 0..n }

\* the lists of at most n members of pool
Lists(pool, n) == UNION { [1..k -> pool] : k \in 0..n }

\* the options object after the constructor merged the defaults
OptionSets ==
  { [maxPerParent |-> DefaultMaxPerParent,
     maxTotalAfterFusion |-> DefaultMaxTotalAfterFusion,
     minTopScore |-> <<DefaultMinTopScore>>,
     minScoreGap |-> <<DefaultMinScoreGap>>,
     maxContextTokens |-> DefaultMaxContextTokens],
    [maxPerParent |-> 1, maxTotalAfterFusion |-> 2,
     minTopScore |-> <<>>, minScoreGap |-> <<>>,
     maxContextTokens |-> 14],
    [maxPerParent |-> 2, maxTotalAfterFusion |-> 3,
     minTopScore |-> <<300>>, minScoreGap |-> <<0>>,
     maxContextTokens |-> 25] }

Queries == {<<>>, <<"q">>}
Vectors == {<<1, 2>>}

\* results that differ in their score only
GateDocs ==
  { Doc(<<"a">>, <<"A">>, <<"T">>, TextAbCd, sc) :
      sc \in {<<>>, <<0>>, <<80>>, <<115>>, <<120>>, <<500>>} }

GateOptions ==
  { [minTopScore |-> t, minScoreGap |-> g] :
      t \in {<<>>, <<120>>, <<300>>}, g \in {<<>>, <<0>>, <<200>>} }

\* blocks as the Formatter emits them
Blocks ==
  { formatDocument(TextAbCd, <<"T">>),
    formatDocument(TextWords, <<>>),
    formatDocument(<<"x">>, <<"x", ">", "a", "b", "c">>),
    formatDocument(TextFive, <<"\"">>),
    formatDocument(TextLong, <<"T">>) }

NormChars == {"a", " ", "\t", "\n", "\r", "\f", ZWSP}

\* ------------------------------------------------------------------------
\* State
\* ------------------------------------------------------------------------

VARIABLES
  options,      \* this.options
  pc,           \* where the renderContext invocation stands
  query,        \* its argument
  qVec,         \* the embedding of the query
  ranked,       \* the candidates in the provider's order
  picked,       \* the selection
  grouped,      \* the document groups
  perGroup,     \* the locals of each iteration of the loop over the groups
  contexts,     \* the blocks
  result,       \* the returned string
  embedCalls,   \* embeddings.create calls issued by the invocation
  searchCalls,  \* searchClient.search calls issued by the invocation
  thrown,       \* the error the invocation rejected with, "none" if none
  fn,           \* the helper applied on its own, "none" when there is none
  args,         \* its arguments
  ret           \* its return value

vars == <<options, pc, query, qVec, ranked, picked, grouped, perGroup,
          contexts, result, embedCalls, searchCalls, thrown, fn, args, ret>>

pipeVars == <<options, pc, query, qVec, ranked, picked, grouped, perGroup,
              contexts, result, embedCalls, searchCalls, thrown>>

callVars == <<fn, args, ret>>

\* a constructed data source on which renderContext has not been called
PipeIdle(o) ==
  /\ options = o
  /\ pc = "idle"
  /\ query = Null
  /\ qVec = <<>>
  /\ ranked = <<>>
  /\ picked = <<>>
  /\ grouped = <<>>
  /\ perGroup = <<>>
  /\ contexts = <<>>
  /\ result = Null
  /\ embedCalls = 0
  /\ searchCalls = 0
  /\ thrown = "none"

NoCall == fn = "none" /\ args = <<>> /\ ret = <<>>

DefaultOptions ==
  [maxPerParent |-> DefaultMaxPerParent,
   maxTotalAfterFusion |-> DefaultMaxTotalAfterFusion,
   minTopScore |-> <<DefaultMinTopScore>>,
   minScoreGap |-> <<DefaultMinScoreGap>>,
   maxContextTokens |-> DefaultMaxContextTokens]

\* ------------------------------------------------------------------------
\* renderContext
\* ------------------------------------------------------------------------

Init == (\E o \in OptionSets : PipeIdle(o)) /\ NoCall

\* renderContext(q) up to the first await
Start(q) ==
  /\ pc = "idle"
  /\ query' = q
  /\ IF q = <<>>
     THEN /\ pc' = "done"
          /\ result' = <<>>
          /\ embedCalls' = embedCalls
     ELSE /\ pc' = "embedding"
          /\ result' = result
          /\ embedCalls' = embedCalls + 1
  /\ UNCHANGED <<options, qVec, ranked, picked, grouped, perGroup, contexts,
                 searchCalls, thrown, callVars>>

\* embeddings.create resolves with data: getEmbeddingVector returns and
\* searchOnce issues the search
EmbedReturn(v) ==
  /\ pc = "embedding"
  /\ qVec' = v
  /\ pc' = "searching"
  /\ searchCalls' = searchCalls + 1
  /\ UNCHANGED <<options, query, ranked, picked, grouped, perGroup, contexts,
                 result, embedCalls, thrown, callVars>>

\* Mutation: the empty result is not tested and the search is issued
EmbedEmptyProceeds ==
  /\ pc = "embedding"
  /\ pc' = "searching"
  /\ searchCalls' = searchCalls + 1
  /\ UNCHANGED <<options, query, qVec, ranked, picked, grouped, perGroup,
                 contexts, result, embedCalls, thrown, callVars>>

\* embeddings.create resolves without data: getEmbeddingVector throws
EmbedEmpty ==
  /\ pc = "embedding"
  /\ pc' = "failed"
  /\ thrown' = "Failed to generate embeddings for text."
  /\ UNCHANGED <<options, query, qVec, ranked, picked, grouped, perGroup,
                 contexts, result, embedCalls, searchCalls, callVars>>

\* embeddings.create rejects
EmbedFail ==
  /\ pc = "embedding"
  /\ pc' = "failed"
  /\ thrown' = "embeddings.create rejected"
  /\ UNCHANGED <<options, query, qVec, ranked, picked, grouped, perGroup,
                 contexts, result, embedCalls, searchCalls, callVars>>

\* searchClient.search rejects, or its result cannot be iterated
SearchFail ==
  /\ pc = "searching"
  /\ pc' = "failed"
  /\ thrown' = "search rejected"
  /\ UNCHANGED <<options, query, qVec, ranked, picked, grouped, perGroup,
                 contexts, result, embedCalls, searchCalls, callVars>>

\* searchCollect returns the results in the provider's order and
\* renderContext runs to its return statement
SearchReturn(items) ==
  /\ pc = "searching"
  /\ LET locals == AfterSearch(items, options)
     IN /\ ranked' = items
        /\ picked' = locals.picked
        /\ grouped' = locals.grouped
        /\ perGroup' = locals.perGroup
        /\ contexts' = locals.contexts
        /\ result' = locals.result
  /\ pc' = "done"
  /\ UNCHANGED <<options, query, qVec, embedCalls, searchCalls, thrown,
                 callVars>>

Next ==
  \/ \E q \in Queries : Start(q)
  \/ \E v \in Vectors : EmbedReturn(v)
  \/ EmbedEmpty
  \/ EmbedFail
  \/ SearchFail
  \/ \E items \in DistinctLists(Docs, MaxRanked) : SearchReturn(items)

Spec == Init /\ [][Next]_vars

\* ------------------------------------------------------------------------
\* The helpers applied on their own
\* ------------------------------------------------------------------------

Idle == PipeIdle(DefaultOptions)

\* limitByParentAndTotal, then groupByParent on its result
InitSelect ==
  /\ Idle
  /\ fn = "none"
  /\ args \in [items : DistinctLists(Docs, MaxItems),
               maxPerParent : 0..MaxPerParentCap,
               maxTotal : 0..MaxTotalCap]
  /\ ret = <<>>

CallLimit ==
  /\ fn = "none"
  /\ fn' = "limitByParentAndTotal"
  /\ ret' = limitByParentAndTotal(args.items, args.maxPerParent, args.maxTotal)
  /\ UNCHANGED <<args, pipeVars>>

CallGroup ==
  /\ fn = "limitByParentAndTotal"
  /\ fn' = "groupByParent"
  /\ ret' = [picked |-> ret, groups |-> groupByParent(ret)]
  /\ UNCHANGED <<args, pipeVars>>

NextSelect == CallLimit \/ CallGroup

SpecSelect == InitSelect /\ [][NextSelect]_vars

\* shouldClarify
InitGate ==
  /\ Idle
  /\ fn = "none"
  /\ args \in [items : Lists(GateDocs, MaxGateItems), options : GateOptions]
  /\ ret = <<>>

CallGate ==
  /\ fn = "none"
  /\ fn' = "shouldClarify"
  /\ ret' = Declines(args.items, args.options)
  /\ UNCHANGED <<args, pipeVars>>

NextGate == CallGate

SpecGate == InitGate /\ [][NextGate]_vars

\* stitchWithTokenBudget
InitStitch ==
  /\ Idle
  /\ fn = "none"
  /\ args \in [pieces : Lists(Blocks, MaxPieces), maxTokens : 0..MaxBudget]
  /\ ret = <<>>

CallStitch ==
  /\ fn = "none"
  /\ fn' = "stitchWithTokenBudget"
  /\ ret' = [out |-> StitchOut(args.pieces, args.maxTokens),
             stitched |-> stitchWithTokenBudget(args.pieces, args.maxTokens)]
  /\ UNCHANGED <<args, pipeVars>>

NextStitch == CallStitch

SpecStitch == InitStitch /\ [][NextStitch]_vars

\* compactWhitespace, then compactWhitespace on its result
InitNorm ==
  /\ Idle
  /\ fn = "none"
  /\ args \in [s : Lists(NormChars, MaxTextLen) \cup {Null}]
  /\ ret = <<>>

CallCompact ==
  /\ fn = "none"
  /\ fn' = "compactWhitespace"
  /\ ret' = compactWhitespace(args.s)
  /\ UNCHANGED <<args, pipeVars>>

CallCompactAgain ==
  /\ fn = "compactWhitespace"
  /\ fn' = "compactWhitespace twice"
  /\ args' = [s |-> ret]
  /\ ret' = compactWhitespace(ret)
  /\ UNCHANGED pipeVars

NextNorm == CallCompact \/ CallCompactAgain

SpecNorm == InitNorm /\ [][NextNorm]_vars

\* ------------------------------------------------------------------------
\* Properties
\* ------------------------------------------------------------------------

\* renderContext returned after the retrieval call returned
Rendered == pc = "done" /\ searchCalls = 1

\* the number of entries of items with the parent key of it
ParentCount(items, key) ==
  Cardinality({j \in 1..Len(items) : ParentKey(items[j]) = key})

\* a is b with some entries left out
RECURSIVE IsSubsequence(_, _)
IsSubsequence(a, b) ==
  IF a = <<>> THEN TRUE
  ELSE IF b = <<>> THEN FALSE
  ELSE IF Head(a) = Head(b) THEN IsSubsequence(Tail(a), Tail(b))
  ELSE IsSubsequence(a, Tail(b))

\* the entries of s that no earlier entry equals, in order
FirstOccurrences(s) ==
  LET first == {i \in 1..Len(s) : \A j \in 1..(i - 1) : s[j] # s[i]}
      nth(k) == CHOOSE i \in first :
                  Cardinality({j \in first : j < i}) = k - 1
  IN [k \in 1..Cardinality(first) |-> s[nth(k)]]

Occurrences(s, x) == Cardinality({i \in 1..Len(s) : s[i] = x})

Range(s) == {s[i] : i \in 1..Len(s)}

\* C1: the estimated token count of the string stitchWithTokenBudget returns
\* is at most maxTokens
C1_WithinBudget ==
  fn = "stitchWithTokenBudget" =>
    estimateTokens(ret.stitched) <= args.maxTokens

\* C2: limitByParentAndTotal returns at most maxTotal candidates
C2_AtMostMaxTotal ==
  fn = "limitByParentAndTotal" => Len(ret) <= args.maxTotal

\* C3: no parent key occurs more than maxPerParent times in the selection,
\* and no group built from the selection has more than maxPerParent chunks
C3_PerParentCap ==
  /\ fn = "limitByParentAndTotal" =>
       \A i \in 1..Len(ret) :
         ParentCount(ret, ParentKey(ret[i])) <= args.maxPerParent
  /\ fn = "groupByParent" =>
       /\ \A i \in 1..Len(ret.picked) :
            ParentCount(ret.picked, ParentKey(ret.picked[i]))
              <= args.maxPerParent
       /\ \A g \in 1..Len(ret.groups) :
            Len(ret.groups[g].chunks) <= args.maxPerParent

\* a parent with more candidates than the cap fills a group up to the cap
C3_Witness ==
  /\ fn = "groupByParent"
  /\ args.maxPerParent = 2
  /\ \E i \in 1..Len(args.items) :
       ParentCount(args.items, ParentKey(args.items[i])) > 2
  /\ \E g \in 1..Len(ret.groups) : Len(ret.groups[g].chunks) = 2

\* the chunks of the selected candidates with parent key k, in selection
\* order
ChunksOf(items, k) ==
  LET mine == SelectSeq(items, LAMBDA it : ParentKey(it) = k
                                           /\ ~Falsy(it.document.chunk))
  IN [i \in 1..Len(mine) |-> mine[i].document.chunk]

\* the parent keys of the selection in order of first appearance
KeysOf(items) ==
  FirstOccurrences([i \in 1..Len(items) |-> ParentKey(items[i])])

\* C4: the selection is a subsequence of the retrieved list with every
\* admitted candidate once, and the groups list the parents in order of
\* first appearance with their chunks in selection order
C4_OrderPreserved ==
  Rendered =>
    /\ IsSubsequence(picked, ranked)
    /\ \A i, j \in 1..Len(picked) : i # j => picked[i] # picked[j]
    /\ Len(grouped) = Len(KeysOf(picked))
    /\ \A g \in 1..Len(grouped) :
         grouped[g].chunks = ChunksOf(picked, KeysOf(picked)[g])

\* a candidate between two admitted ones was left out, two groups were built
C4_Witness ==
  /\ Rendered
  /\ Len(picked) >= 2
  /\ Len(grouped) >= 2
  /\ \E i, j, k \in 1..Len(ranked) :
       /\ i < j /\ j < k
       /\ ranked[i] \in Range(picked)
       /\ ranked[j] \notin Range(picked)
       /\ ranked[k] \in Range(picked)

\* the decision of the claim, on the scores of the list
ReferenceDecision(scores, minTopScore, minScoreGap) ==
  LET top == IF Len(scores) >= 1 /\ scores[1] # <<>> THEN scores[1][1] ELSE 0
      second == IF Len(scores) >= 2 /\ scores[2] # <<>> THEN scores[2][1]
                ELSE 0
  IN CASE Len(scores) = 0 -> TRUE
       [] Len(scores) >= 3 -> FALSE
       [] OTHER -> ~(top >= minTopScore \/ top - second >= minScoreGap)

\* C5: shouldClarify declines an empty list, never declines three or more
\* candidates, and declines one or two candidates exactly when the top score
\* is below minTopScore and its lead over the second below minScoreGap
C5_GateDecision ==
  fn = "shouldClarify" =>
    ret = ReferenceDecision(
            [i \in 1..Len(args.items) |-> args.items[i].score],
            OptionOr(args.options.minTopScore, DefaultMinTopScore),
            OptionOr(args.options.minScoreGap, DefaultMinScoreGap))

\* two candidates, the first without score, are declined
C5_Witness ==
  /\ fn = "shouldClarify"
  /\ Len(args.items) = 2
  /\ args.items[1].score = <<>>
  /\ args.items[2].score # <<>>
  /\ ret = TRUE

\* C6: when the gate declines, renderContext returns the empty string
\* without throwing and no later stage has produced anything
C6_DeclineIsEmpty ==
  (pc \in {"done", "failed"} /\ searchCalls = 1 /\ thrown # "search rejected"
     /\ Declines(ranked, options)) =>
    /\ pc = "done"
    /\ thrown = "none"
    /\ result = <<>>
    /\ picked = <<>>
    /\ grouped = <<>>
    /\ perGroup = <<>>
    /\ contexts = <<>>

\* a non-empty candidate list with text was declined
C6_Witness ==
  /\ Rendered
  /\ Len(ranked) = 2
  /\ \A i \in 1..2 : compactWhitespace(ranked[i].document.chunk) # <<>>
  /\ Declines(ranked, options)
  /\ result = <<>>

\* C7: within a group the de-duplicated fragments are the first occurrences
\* of the group's normalized fragments, each once, and a fragment that also
\* occurs in another group stays in both
C7_DedupePerGroup ==
  Rendered =>
    /\ \A g \in 1..Len(perGroup) :
         /\ perGroup[g].deduped = FirstOccurrences(perGroup[g].normalizedChunks)
         /\ \A x \in Range(perGroup[g].normalizedChunks) :
              Occurrences(perGroup[g].deduped, x) = 1
    /\ \A g, h \in 1..Len(perGroup) :
         \A x \in Range(perGroup[g].normalizedChunks)
                    \cap Range(perGroup[h].normalizedChunks) :
           x \in Range(perGroup[g].deduped) /\ x \in Range(perGroup[h].deduped)

\* one group held the same normalized fragment twice and kept it once, and
\* another group kept that fragment too
C7_Witness ==
  /\ Rendered
  /\ \E g, h \in 1..Len(perGroup) :
       /\ g # h
       /\ \E x \in Range(perGroup[g].deduped) :
            /\ Occurrences(perGroup[g].normalizedChunks, x) = 2
            /\ x \in Range(perGroup[h].deduped)

\* C8: compactWhitespace applied to its own result returns it unchanged
C8_Idempotent ==
  fn = "compactWhitespace twice" => ret = args.s

\* the text compacted a second time holds a blank line
C8_Witness ==
  /\ fn = "compactWhitespace twice"
  /\ \E i \in 1..(Len(ret) - 1) : ret[i] = "\n" /\ ret[i + 1] = "\n"

\* s holds an opening tag directly followed, but for white space, by the
\* closing tag
HasEmptyBlock(s) ==
  \E i \in 0..Len(s) :
    /\ StartsWithAt(s, <<"\"", ">">>, i)
    /\ StartsWithAt(TrimStart(SliceFrom(s, i + 2)), CloseTag, 0)

\* C9: a group whose condensed text is empty after normalisation adds no
\* block, and the returned string has no block with empty inner text
C9_NoEmptyBlock ==
  Rendered =>
    /\ Len(contexts)
         = Cardinality({g \in 1..Len(perGroup) :
                          compactWhitespace(perGroup[g].cut) # <<>>})
    /\ \A i \in 1..Len(contexts) : ~HasEmptyBlock(contexts[i])
    /\ ~HasEmptyBlock(result)

\* a group of blank fragments was dropped next to a group that gave a block
C9_Witness ==
  /\ Rendered
  /\ \E g \in 1..Len(grouped) :
       /\ grouped[g].chunks # <<>>
       /\ perGroup[g].cut = <<>>
  /\ Len(contexts) >= 1
  /\ result # <<>>

\* the estimated tokens of the first k pieces
RECURSIVE TokensOf(_, _)
TokensOf(pieces, k) ==
  IF k = 0 THEN 0 ELSE TokensOf(pieces, k - 1) + estimateTokens(pieces[k])

\* the number of leading pieces that fit the budget together
WholeCount(pieces, maxTokens) ==
  CHOOSE k \in 0..Len(pieces) :
    /\ TokensOf(pieces, k) <= maxTokens
    /\ (k = Len(pieces) \/ TokensOf(pieces, k + 1) > maxTokens)

\* C10: the output is the leading pieces that fit, kept whole, followed by
\* the trimmed next piece when budget remains and by nothing else
C10_PrefixThenOneTrimmed ==
  fn = "stitchWithTokenBudget" =>
    LET k == WholeCount(args.pieces, args.maxTokens)
        remaining == args.maxTokens - TokensOf(args.pieces, k)
    IN /\ SubSeq(ret.out, 1, k) = SubSeq(args.pieces, 1, k)
       /\ IF k < Len(args.pieces) /\ remaining > 0
          THEN /\ Len(ret.out) = k + 1
               /\ ret.out[k + 1] = TrimPiece(args.pieces[k + 1], remaining)
          ELSE Len(ret.out) = k

\* a piece was trimmed and the piece after it, which would have fitted the
\* budget left before the trim, is not in the output
C10_Witness ==
  /\ fn = "stitchWithTokenBudget"
  /\ Len(args.pieces) = 3
  /\ Len(ret.out) = 2
  /\ ret.out[1] = args.pieces[1]
  /\ ret.out[2] # args.pieces[2]
  /\ estimateTokens(args.pieces[1]) + estimateTokens(args.pieces[3])
       <= args.maxTokens

\* s.endsWith(pat)
EndsWith(s, pat) ==
  Len(pat) <= Len(s) /\ StartsWithAt(s, pat, Len(s) - Len(pat))

\* C11: when a piece does not fit and budget remains, the last piece of the
\* output is that piece made shorter, its inner text ending with the
\* ellipsis
C11_TrimmedAndMarked ==
  fn = "stitchWithTokenBudget" =>
    LET k == WholeCount(args.pieces, args.maxTokens)
        remaining == args.maxTokens - TokensOf(args.pieces, k)
    IN (k < Len(args.pieces) /\ remaining > 0) =>
         /\ Len(ret.out) = k + 1
         /\ Len(ret.out[k + 1]) < Len(args.pieces[k + 1])
         /\ EndsWith(ret.out[k + 1], <<ELLIPSIS>> \o CloseTag)

\* the calls of the invocation are in order, single, and a failed call has
\* ended the invocation without a string
CallsInOrder ==
  /\ embedCalls <= 1
  /\ searchCalls <= 1
  /\ searchCalls = 1 => (embedCalls = 1 /\ qVec \in Vectors)
  /\ pc = "embedding" => (embedCalls = 1 /\ searchCalls = 0)
  /\ pc = "searching" => searchCalls = 1
  /\ thrown # "none" => (pc = "failed" /\ result = Null)
  /\ pc = "failed" => thrown # "none"
  /\ thrown \in {"Failed to generate embeddings for text.",
                 "embeddings.create rejected"} => searchCalls = 0

\* C12: the search is issued only after the embedding call returned a
\* vector, each call is issued at most once, and a failed call ends the
\* invocation with that failure: no step follows it and no string is
\* returned
C12_SequentialCallsNoRetry ==
  [][/\ CallsInOrder /\ CallsInOrder'
     /\ pc # "failed"
     /\ embedCalls' >= embedCalls /\ searchCalls' >= searchCalls
     /\ searchCalls' > searchCalls => (pc = "embedding" /\ qVec' \in Vectors)
    ]_vars

\* the search failed after the one embedding call had returned its vector
C12_Witness ==
  /\ pc = "failed"
  /\ thrown = "search rejected"
  /\ embedCalls = 1
  /\ searchCalls = 1
  /\ qVec \in Vectors
  /\ result = Null

\* the opening tag of a block: up to the quote and bracket that close the
\* source attribute (the escaped title holds no quote)
OpeningTagOf(p) == Slice(p, 0, IndexOf(p, <<"\"", ">">>) + 2)

\* C13: a piece put through the trim still begins with its whole opening
\* tag and ends with the closing tag
C13_WrapperKept ==
  fn = "stitchWithTokenBudget" =>
    LET k == WholeCount(args.pieces, args.maxTokens)
        remaining == args.maxTokens - TokensOf(args.pieces, k)
    IN (k < Len(args.pieces) /\ remaining > 0) =>
         /\ Len(ret.out) = k + 1
         /\ StartsWithAt(ret.out[k + 1], OpeningTagOf(args.pieces[k + 1]), 0)
         /\ EndsWith(ret.out[k + 1], CloseTag)

\* ------------------------------------------------------------------------
\* dedupeByHash applied on its own
\* ------------------------------------------------------------------------

\* the longest fragment list given to the Deduper
MaxChunks == 3

\* normalized fragments; "Aa" and "BB" are 65*31+97 = 66*31+66 = 2112
Fragments ==
  { <<"A", "a">>, <<"B", "B">>, <<"a", "b">>, <<"x">>, TextAbCd }

InitDedupe ==
  /\ Idle
  /\ fn = "none"
  /\ args \in [chunks : Lists(Fragments, MaxChunks)]
  /\ ret = <<>>

CallDedupe ==
  /\ fn = "none"
  /\ fn' = "dedupeByHash"
  /\ ret' = dedupeByHash(args.chunks)
  /\ UNCHANGED <<args, pipeVars>>

NextDedupe == CallDedupe

SpecDedupe == InitDedupe /\ [][NextDedupe]_vars

\* C14: dedupeByHash returns every distinct fragment exactly once, in order
\* of first occurrence: a fragment is dropped only if an identical one
\* comes earlier
C14_OnlyExactRepeatsDropped ==
  fn = "dedupeByHash" =>
    /\ ret = FirstOccurrences(args.chunks)
    /\ \A x \in Range(args.chunks) : Occurrences(ret, x) = 1

\* ------------------------------------------------------------------------
\* trimToLastN (src/src/app/app.ts)
\* ------------------------------------------------------------------------

\* the longest message list, and the largest max, given to trimToLastN
MaxMessages == 4
MaxKeep == 3

\* s.slice(-n) for n >= 0: -0 is 0, so slice(-0) is the whole array
SliceLast(s, n) ==
  IF n = 0 \/ n >= Len(s) THEN s ELSE SubSeq(s, Len(s) - n + 1, Len(s))

\* messages.findIndex((m) => m?.role === "system"): 0-based, -1 when absent
FirstSystemIdx(messages) ==
  LET hits == {i \in 1..Len(messages) : messages[i].role = "system"}
  IN IF hits = {} THEN -1
     ELSE (CHOOSE i \in hits : \A j \in hits : i <= j) - 1

\* messages is always an array here, so !Array.isArray(messages) is false
trimToLastN(messages, max) ==
  IF max <= 0 THEN <<>>
  ELSE LET firstSystemIdx == FirstSystemIdx(messages)
           hasHead == firstSystemIdx >= 0
           nonSystem == SelectSeq(messages, LAMBDA m : m.role # "system")
           tailBudget == IF hasHead THEN Max2(0, max - 1) ELSE max
           trimmedTail == SliceLast(nonSystem, tailBudget)
       IN IF hasHead THEN <<messages[firstSystemIdx + 1]>> \o trimmedTail
          ELSE trimmedTail

Messages ==
  { [role |-> "system", content |-> <<"a">>],
    [role |-> "system", content |-> <<"b">>],
    [role |-> "user", content |-> <<"a">>],
    [role |-> "assistant", content |-> <<"b">>],
    [role |-> "user", content |-> <<"c">>] }

InitTrim ==
  /\ Idle
  /\ fn = "none"
  /\ args \in [messages : DistinctLists(Messages, MaxMessages),
               max : 0..MaxKeep]
  /\ ret = <<>>

CallTrim ==
  /\ fn = "none"
  /\ fn' = "trimToLastN"
  /\ ret' = trimToLastN(args.messages, args.max)
  /\ UNCHANGED <<args, pipeVars>>

NextTrim == CallTrim

SpecTrim == InitTrim /\ [][NextTrim]_vars

\* the last n entries of s, none when n = 0
LastN(s, n) ==
  IF n >= Len(s) THEN s
  ELSE [i \in 1..n |-> s[Len(s) - n + i]]

\* C15: for max >= 1 trimToLastN returns at most max messages: the first
\* system message followed by the last max - 1 other messages, or the last
\* max other messages when there is no system message
C15_AtMostMaxMessages ==
  (fn = "trimToLastN" /\ args.max >= 1) =>
    LET systems == SelectSeq(args.messages, LAMBDA m : m.role = "system")
        others == SelectSeq(args.messages, LAMBDA m : m.role # "system")
    IN /\ Len(ret) <= args.max
       /\ ret = IF systems # <<>>
                THEN <<systems[1]>> \o LastN(others, args.max - 1)
                ELSE LastN(others, args.max)

====
